---------------------------- MODULE Spec2Model ----------------------------
(***************************************************************************)
(* A model of src/server.py: the WebSocket bridge that validates a YouTube *)
(* URL, starts adb exec-out am start ... and relays the process output.  *)
(*                                                                         *)
(* Text is modelled as a sequence of one-character strings, so that the    *)
(* string operations of the source (strip, lower, startswith, find,        *)
(* replace, shlex quoting) are computed rather than assumed.               *)
(***************************************************************************)
EXTENDS Integers, Sequences, FiniteSets, TLC

(***************************************************************************)
(* Text primitives (Python str methods used by the source and by the       *)
(* library routines it calls).                                             *)
(***************************************************************************)

UpperChars == <<"A","B","C","D","E","F","G","H","I","J","K","L","M",
                "N","O","P","Q","R","S","T","U","V","W","X","Y","Z">>

LowerChars == <<"a","b","c","d","e","f","g","h","i","j","k","l","m",
                "n","o","p","q","r","s","t","u","v","w","x","y","z">>

DigitChars == <<"0","1","2","3","4","5","6","7","8","9">>

Range(s) == { s[i] : i \in DOMAIN s }

Letters == Range(UpperChars) \cup Range(LowerChars)

\* str.lower() on one character
LowerCh(ch) ==
    IF ch \in Range(UpperChars)
    THEN LowerChars[CHOOSE i \in DOMAIN UpperChars : UpperChars[i] = ch]
    ELSE ch

\* str.lower()
lower(s) == [ i \in DOMAIN s |-> LowerCh(s[i]) ]

\* s[a:b] of Python for 1-based positions a..b (empty when a > b)
Slice(s, a, b) == IF a > b THEN << >> ELSE SubSeq(s, a, b)

\* s.find(c, start): the least position >= start holding a character of
\* chars, or 0 when there is none (Python returns -1)
Find(s, chars, start) ==
    LET hits == { i \in DOMAIN s : i >= start /\ s[i] \in chars }
    IN  IF hits = {} THEN 0
        ELSE CHOOSE i \in hits : \A j \in hits : i <= j

\* s.rfind(c): the greatest position holding c, or 0
RFind(s, chars) ==
    LET hits == { i \in DOMAIN s : s[i] \in chars }
    IN  IF hits = {} THEN 0
        ELSE CHOOSE i \in hits : \A j \in hits : i >= j

\* s.startswith(p)
startswith(s, p) == Len(s) >= Len(p) /\ SubSeq(s, 1, Len(p)) = p

\* s.replace(c, "") for every c of chars
RemoveChars(s, chars) == SelectSeq(s, LAMBDA ch : ch \notin chars)

\* the characters str.strip() removes (the ASCII ones of the model's alphabet)
Whitespace == { " ", "\t", "\n", "\r" }

\* s.lstrip(chars)
lstrip(s, chars) ==
    LET keep == { i \in DOMAIN s : s[i] \notin chars }
    IN  IF keep = {} THEN << >>
        ELSE Slice(s, CHOOSE i \in keep : \A j \in keep : i <= j, Len(s))

\* s.rstrip(chars)
rstrip(s, chars) ==
    LET keep == { i \in DOMAIN s : s[i] \notin chars }
    IN  IF keep = {} THEN << >>
        ELSE Slice(s, 1, CHOOSE i \in keep : \A j \in keep : i >= j)

\* s.strip()
strip(s) == rstrip(lstrip(s, Whitespace), Whitespace)

\* concatenation of a sequence of texts (by halves, to keep the evaluation
\* shallow)
RECURSIVE Concat(_)
Concat(parts) ==
    IF Len(parts) = 0 THEN << >>
    ELSE IF Len(parts) = 1 THEN parts[1]
    ELSE LET m == Len(parts) \div 2
         IN  Concat(SubSeq(parts, 1, m)) \o Concat(SubSeq(parts, m + 1, Len(parts)))

\* sep.join(parts)
Join(sep, parts) ==
    IF Len(parts) = 0 THEN << >>
    ELSE Concat([ i \in 1..(2 * Len(parts) - 1) |->
                    IF i % 2 = 1 THEN parts[(i + 1) \div 2] ELSE sep ])


(***************************************************************************)
(* urllib.parse.urlparse, as is_valid_youtube_url calls it (server.py:35). *)
(* The model follows CPython 3.11's urlsplit/urlparse on ASCII input: the  *)
(* scheme is lower-cased, tab/CR/LF are removed, the netloc is everything  *)
(* between "//" and the next "/", "?" or "#" (userinfo and port included)  *)
(* and the ;params of the last path segment are split off the path.        *)
(***************************************************************************)

S_http == <<"h","t","t","p">>

S_https == <<"h","t","t","p","s">>

\* urllib.parse.scheme_chars
SchemeChars == Letters \cup Range(DigitChars) \cup { "+", "-", "." }

\* urllib.parse._WHATWG_C0_CONTROL_OR_SPACE (the members in the alphabet;
\* "^A" stands for the control character U+0001)
C0ControlOrSpace == { " ", "\t", "\n", "\r", "^A" }

\* urllib.parse._UNSAFE_URL_BYTES_TO_REMOVE
UnsafeUrlBytes == { "\t", "\r", "\n" }

\* urllib.parse.uses_params
uses_params ==
    { <<>>,
      <<"f","t","p">>,
      <<"h","d","l">>,
      <<"p","r","o","s","p","e","r","o">>,
      <<"h","t","t","p">>,
      <<"i","m","a","p">>,
      <<"h","t","t","p","s">>,
      <<"s","h","t","t","p">>,
      <<"r","t","s","p">>,
      <<"r","t","s","p","s">>,
      <<"r","t","s","p","u">>,
      <<"s","i","p">>,
      <<"s","i","p","s">>,
      <<"m","m","s">>,
      <<"s","f","t","p">>,
      <<"t","e","l">> }

\* the text before the first character of chars, all of it when there is none
Before(u, chars) ==
    LET q == Find(u, chars, 1)
    IN  IF q = 0 THEN u ELSE Slice(u, 1, q - 1)

\* the text after the first character of chars, empty when there is none
After(u, chars) ==
    LET q == Find(u, chars, 1)
    IN  IF q = 0 THEN << >> ELSE Slice(u, q + 1, Len(u))

\* urllib.parse._splitnetloc(url, 2), the netloc: up to the first of "/?#"
NetlocOf(u) ==
    LET delim == Find(u, {"/", "?", "#"}, 3)
    IN  IF delim = 0 THEN Slice(u, 3, Len(u)) ELSE Slice(u, 3, delim - 1)

\* urllib.parse._splitnetloc(url, 2), the rest
AfterNetloc(u) ==
    LET delim == Find(u, {"/", "?", "#"}, 3)
    IN  IF delim = 0 THEN << >> ELSE Slice(u, delim, Len(u))

\* urlsplit raises ValueError("Invalid IPv6 URL") on an unbalanced bracket
bracket_error(netloc) == ("[" \in Range(netloc)) # ("]" \in Range(netloc))

\* urlsplit, the end: the fragment is cut off, then the query
split_tail(scheme, raised, netloc, u) ==
    [ raised |-> raised,
      scheme |-> scheme,
      netloc |-> netloc,
      path   |-> Before(Before(u, {"#"}), {"?"}),
      query  |-> After(Before(u, {"#"}), {"?"}) ]

\* urlsplit, the netloc: what follows a leading "//"
split_netloc(scheme, u) ==
    IF startswith(u, <<"/","/">>)
    THEN split_tail(scheme, bracket_error(NetlocOf(u)), NetlocOf(u), AfterNetloc(u))
    ELSE split_tail(scheme, FALSE, << >>, u)

\* urlsplit, the scheme: the text before the first colon at position i, when
\* it starts with a letter and holds scheme characters only; it is lower-cased
scheme_found(u, i) ==
    /\ i > 1
    /\ u[1] \in Letters
    /\ \A k \in 1..(i - 1) : u[k] \in SchemeChars

split_scheme(u, i) ==
    split_netloc(IF scheme_found(u, i) THEN lower(Slice(u, 1, i - 1)) ELSE << >>,
                 IF scheme_found(u, i) THEN Slice(u, i + 1, Len(u)) ELSE u)

\* the url with leading C0 control characters and spaces stripped and tab,
\* CR and LF removed
url_cleaned(url) == RemoveChars(lstrip(url, C0ControlOrSpace), UnsafeUrlBytes)

\* urlsplit: [raised, scheme, netloc, path, query]
urlsplit(url) == split_scheme(url_cleaned(url), Find(url_cleaned(url), {":"}, 1))

\* urllib.parse._splitparams, the part kept as the path
splitparams_path(url) ==
    Slice(url, 1,
          IF Find(url, {";"}, IF RFind(url, {"/"}) > 0 THEN RFind(url, {"/"}) ELSE 1) = 0
          THEN Len(url)
          ELSE Find(url, {";"}, IF RFind(url, {"/"}) > 0 THEN RFind(url, {"/"}) ELSE 1) - 1)

\* urlparse, the params split for the schemes that use them
split_params(r) ==
    IF r.scheme \in uses_params /\ ";" \in Range(r.path)
    THEN [ r EXCEPT !.path = splitparams_path(r.path) ]
    ELSE r

\* urlparse(url)
urlparse(url) == split_params(urlsplit(url))

(***************************************************************************)
(* is_valid_youtube_url (server.py:30-61)                                  *)
(***************************************************************************)

H_youtube == <<"y","o","u","t","u","b","e",".","c","o","m">>

H_www_youtube == <<"w","w","w",".","y","o","u","t","u","b","e",".","c","o",
    "m">>

H_m_youtube == <<"m",".","y","o","u","t","u","b","e",".","c","o","m">>

H_youtu_be == <<"y","o","u","t","u",".","b","e">>

H_www_youtu_be == <<"w","w","w",".","y","o","u","t","u",".","b","e">>

P_watch == <<"/","w","a","t","c","h">>

P_shorts == <<"/","s","h","o","r","t","s">>

P_live == <<"/","l","i","v","e">>

P_embed == <<"/","e","m","b","e","d">>

allowed_hosts ==
    { H_www_youtube, H_youtube, H_m_youtube, H_youtu_be, H_www_youtu_be }

\* path_ok with the youtu.be rule reduced to bool(u.path)
path_ok_loose(host, path) ==
    IF host \in { H_youtu_be, H_www_youtu_be }
    THEN path # << >>
    ELSE IF host \in { H_youtube, H_www_youtube, H_m_youtube }
    THEN \E p \in { P_watch, P_shorts, P_live, P_embed } : startswith(path, p)
    ELSE FALSE

\* the host-specific path check of lines 57-61
path_ok(host, path) ==
    IF host \in { H_youtu_be, H_www_youtu_be }
    THEN path # << >> /\ path # <<"/">>
    ELSE IF host \in { H_youtube, H_www_youtube, H_m_youtube }
    THEN \E p \in { P_watch, P_shorts, P_live, P_embed } : startswith(path, p)
    ELSE FALSE

\* lines 52-61, host being (u.netloc or "").lower()
check_host(host, path) ==
    IF host \notin allowed_hosts THEN FALSE ELSE path_ok(host, path)

\* lines 39-61 on the parse result
check_parsed(u) ==
    IF u.raised THEN FALSE
    ELSE IF u.scheme \notin { S_http, S_https } THEN FALSE
    ELSE check_host(lower(u.netloc), u.path)

is_valid_youtube_url(url) == check_parsed(urlparse(url))

(***************************************************************************)
(* The argument vector of run_adb_intent (server.py:86-99): shlex.join     *)
(* quotes every token with shlex.quote and joins them with one space.      *)
(***************************************************************************)

A_adb == <<"a","d","b">>

A_exec_out == <<"e","x","e","c","-","o","u","t">>

A_am == <<"a","m">>

A_start == <<"s","t","a","r","t">>

A_a == <<"-","a">>

A_VIEW == <<"a","n","d","r","o","i","d",".","i","n","t","e","n","t",".","a",
    "c","t","i","o","n",".","V","I","E","W">>

A_d == <<"-","d">>

A_p == <<"-","p">>

A_pkg == <<"c","o","m",".","g","o","o","g","l","e",".","a","n","d","r","o",
    "i","d",".","y","o","u","t","u","b","e",".","t","v">>

\* the characters shlex.quote leaves alone: [\w@%+=:,./-] with re.ASCII
ShlexSafe ==
    Letters \cup Range(DigitChars) \cup { "_", "@", "%", "+", "=", ":", ",", ".", "/", "-" }

\* s.replace("'", "'\"'\"'")
EscapeQuotes(s) ==
    Concat([ i \in DOMAIN s |->
               IF s[i] = "'" THEN <<"'", "\"", "'", "\"", "'">> ELSE << s[i] >> ])

\* shlex.quote left out: the token as it is
shlex_quote_raw(s) == s

\* shlex.quote
shlex_quote(s) ==
    IF s = << >> THEN <<"'", "'">>
    ELSE IF \A i \in DOMAIN s : s[i] \in ShlexSafe THEN s
    ELSE <<"'">> \o EscapeQuotes(s) \o <<"'">>

\* shlex.join
shlex_join(tokens) ==
    Join(<<" ">>, [ i \in DOMAIN tokens |-> shlex_quote(tokens[i]) ])

\* the tuple cmd of run_adb_intent
adb_cmd(url) ==
    << A_adb,
       A_exec_out,
       shlex_join(<< A_am, A_start, A_a, A_VIEW, A_d, url, A_p, A_pkg >>) >>


(***************************************************************************)
(* Bounds of the model.                                                    *)
(***************************************************************************)

\* frames a client sends on one connection
MaxFrames == 2

(***************************************************************************)
(* Values exchanged with the client.                                       *)
(*                                                                         *)
(* An inbound text is given by its syntax: "garbage" (json.loads raises    *)
(* JSONDecodeError) or "json" with the Python value that json.loads        *)
(* returns.  A Python value is [t, s]: t its type, s its text (str), its   *)
(* digits (int) or empty; a dict carries the values of its keys "type" and *)
(* "url", PyAbsent for a key that is not there.                            *)
(***************************************************************************)

T_open == <<"o","p","e","n">>

T_ping == <<"p","i","n","g">>

T_noop == <<"n","o","o","p">>

L_stdout == <<"s","t","d","o","u","t">>

L_stderr == <<"s","t","d","e","r","r">>

R_None == <<"N","o","n","e">>

E_perm == <<"P","e","r","m","i","s","s","i","o","n","E","r","r","o","r","(",
    "1","3",","," ","'","P","e","r","m","i","s","s","i","o","n"," ","d","e",
    "n","i","e","d","'",")">>

U_short == <<"h","t","t","p","s",":","/","/","y","o","u","t","u",".","b",
    "e","/","a">>

U_evil == <<"h","t","t","p","s",":","/","/","e","v","i","l",".","c","o","m",
    "/","w","a","t","c","h">>

PyNone == [ t |-> "none", s |-> << >> ]

PyAbsent == [ t |-> "absent", s |-> << >> ]

PyStr(s) == [ t |-> "str", s |-> s ]

PyInt(digits) == [ t |-> "int", s |-> digits ]

PyDict(type, url) == [ t |-> "dict", s |-> << >>, type |-> type, url |-> url ]

JsonText(v) == [ type |-> "TEXT", syntax |-> "json", value |-> v ]

\* the frames a client may send
Frames ==
    << [ type |-> "TEXT", syntax |-> "garbage", value |-> PyNone ],
       JsonText(PyStr(T_noop)),
       JsonText(PyDict(PyStr(T_ping), PyAbsent)),
       JsonText(PyDict(PyStr(T_noop), PyAbsent)),
       JsonText(PyDict(PyAbsent, PyStr(U_short))),
       JsonText(PyDict(PyStr(T_open), PyStr(<<" ">> \o U_short \o <<"\n">>))),
       JsonText(PyDict(PyStr(T_open), PyStr(U_evil))),
       JsonText(PyDict(PyStr(T_open), PyStr(<<" ", "\t">>))),
       JsonText(PyDict(PyStr(T_open), PyAbsent)),
       JsonText(PyDict(PyStr(T_open), PyInt(<<"5">>))),
       [ type |-> "BINARY", syntax |-> "garbage", value |-> PyNone ],
       [ type |-> "ERROR", syntax |-> "garbage", value |-> PyNone ],
       [ type |-> "CLOSE", syntax |-> "garbage", value |-> PyNone ] >>

\* a run of bytes without a newline that is longer than the limit of an
\* asyncio StreamReader (2**16 bytes, the default that
\* create_subprocess_exec is called with), written as one element
OverLimit == "x65537"

\* what a process may do: what it writes to its two pipes before it closes
\* them, and its exit status.  Nothing written; a line on one pipe and text
\* without a final newline on the other; a line on one pipe and a line, a
\* blank line and an unterminated last line on the other; a line longer
\* than the limit on stdout; unterminated text longer than the limit on
\* stderr
Scripts ==
    << [ stdout |-> << >>, stderr |-> << >>, code |-> 1 ],
       [ stdout |-> <<"o","k","\n">>, stderr |-> <<"x">>, code |-> 0 ],
       [ stdout |-> <<"e","\n">>, stderr |-> <<"a","\n","\n","b">>, code |-> 1 ],
       [ stdout |-> << OverLimit, "\n" >>, stderr |-> << >>, code |-> 0 ],
       [ stdout |-> << >>, stderr |-> << OverLimit >>, code |-> 0 ] >>

Streams == { "stdout", "stderr" }

ConnIds == { "A", "B" }

(***************************************************************************)
(* State.  Every variable but the last four is a function of the           *)
(* connection.                                                             *)
(*   pc        where websocket_handler stands: "absent" (no such           *)
(*             connection), "new" (accepted, greeting not yet sent),       *)
(*             "recv" (async for msg in ws), "spawn" (at                   *)
(*             create_subprocess_exec), "wait" (await proc.wait()),        *)
(*             "await_out", "await_err", "closed" (returned ws),           *)
(*             "crashed" (left by an unhandled exception)                  *)
(*   inbox     frames received and not yet read by the loop                *)
(*   hist      frames the loop has read, in order (history)                *)
(*   sent      notifications sent, in order (history); req is the index in *)
(*             hist of the request being dispatched, 0 for the greeting    *)
(*   attempts  calls of create_subprocess_exec: [req, cmd, outcome]        *)
(*             (history)                                                   *)
(*   procs     the processes started: [req, alive, returncode, todo, code, *)
(*             buf, wopen, task]; todo the bytes the process has yet to    *)
(*             write to each pipe, code the status it will exit with, buf  *)
(*             the bytes in each pipe, wopen whether its write end is      *)
(*             open, task the state of each relay task                     *)
(*   cur, rc, cmd   the locals proc (an index of procs), rc and cmd of     *)
(*             run_adb_intent                                              *)
(*   uin, uphase, ures, ucmd   the input, position and results of the      *)
(*             specification of the pure functions (SpecUrl)               *)
(***************************************************************************)
VARIABLES pc, inbox, hist, sent, attempts, procs, cur, rc, cmd,
          uin, uphase, ures, ucmd

connVars == << pc, inbox, hist, sent, attempts, procs, cur, rc, cmd >>

urlVars == << uin, uphase, ures, ucmd >>

vars == << pc, inbox, hist, sent, attempts, procs, cur, rc, cmd,
           uin, uphase, ures, ucmd >>

(***************************************************************************)
(* send (server.py:64-66): the payload {"type", "message", **extra}.  The  *)
(* message is kept as its format and the texts interpolated into it.       *)
(***************************************************************************)
send(typ, fmt, args, extra) ==
    [ type |-> typ, fmt |-> fmt, args |-> args, extra |-> extra ]

\* str(n) for the small integers of the model
IntStr(n) == << DigitChars[n + 1] >>

\* repr() of the Python values a message may carry as its type
py_repr(v) ==
    IF v.t \in { "none", "absent" } THEN R_None
    ELSE IF v.t = "str" THEN <<"'">> \o v.s \o <<"'">>
    ELSE v.s

\* json.dumps of one character inside a string
JsonEscapeCh(ch) ==
    IF ch = "\"" THEN <<"\\", "\"">>
    ELSE IF ch = "\\" THEN <<"\\", "\\">>
    ELSE IF ch = "\t" THEN <<"\\", "t">>
    ELSE IF ch = "\n" THEN <<"\\", "n">>
    ELSE IF ch = "\r" THEN <<"\\", "r">>
    ELSE << ch >>

\* json.dumps of a str
json_dumps_str(s) ==
    <<"\"">> \o Concat([ i \in DOMAIN s |-> JsonEscapeCh(s[i]) ]) \o <<"\"">>

\* json.dumps of a tuple of str
json_dumps(list) ==
    <<"[">> \o Join(<<",", " ">>, [ i \in DOMAIN list |-> json_dumps_str(list[i]) ])
            \o <<"]">>

(***************************************************************************)
(* The body of the loop for one TEXT message (server.py:137-158), up to    *)
(* the first await that is not a send: the notifications sent, where the   *)
(* handler goes next, and the cmd built by run_adb_intent (lines 86-101).  *)
(***************************************************************************)

\* json.loads(msg.data)
json_loads(msg) ==
    IF msg.syntax = "json"
    THEN [ raised |-> FALSE, value |-> msg.value ]
    ELSE [ raised |-> TRUE, value |-> PyNone ]

\* data.get(key) of a dict
dict_get(v) == IF v.t = "absent" THEN PyNone ELSE v

\* the truth value of a Python value
truthy(v) ==
    IF v.t = "str" THEN v.s # << >>
    ELSE IF v.t = "int" THEN v.s # <<"0">>
    ELSE v.t \notin { "none", "absent" }

NoNotes(to) == [ out |-> << >>, to |-> to, cmd |-> << >> ]

\* run_adb_intent up to create_subprocess_exec: cmd and the log of line 101,
\* after the echo of line 147
on_valid_url(url) ==
    [ out |-> << send("log", "Received URL: {}", << url >>, << >>),
                 send("log", "Command executed: {}", << json_dumps(adb_cmd(url)) >>, << >>) >>,
      to  |-> "spawn",
      cmd |-> adb_cmd(url) ]

\* on_invalid_url without the echo of line 147
on_invalid_url_noecho(url) ==
    [ out |-> << send("error", "The URL is invalid as a YouTube URL (check allowed domains/formats).",
                      << >>, << >>) >>,
      to  |-> "recv",
      cmd |-> << >> ]

\* lines 147-151: the echo, then the error of a rejected URL
on_invalid_url(url) ==
    [ out |-> << send("log", "Received URL: {}", << url >>, << >>),
                 send("error", "The URL is invalid as a YouTube URL (check allowed domains/formats).",
                      << >>, << >>) >>,
      to  |-> "recv",
      cmd |-> << >> ]

\* on_url without the validation gate
on_url_unchecked(url) == on_valid_url(url)

\* lines 147-153
on_url(url) ==
    IF ~is_valid_youtube_url(url) THEN on_invalid_url(url) ELSE on_valid_url(url)

\* line 146, raw being (data.get("url") or ""): .strip() of a value that is
\* no str raises AttributeError
on_raw_url(raw) ==
    IF raw.t # "str" THEN NoNotes("crashed") ELSE on_url(strip(raw.s))

\* the branch typ == "open" (lines 146-153)
on_open(data) ==
    on_raw_url(IF truthy(dict_get(data.url)) THEN dict_get(data.url) ELSE PyStr(<< >>))

\* on_type that passes over a request of unknown type in silence
on_type_silent(data, typ) ==
    IF typ.t = "str" /\ typ.s = T_open
    THEN on_open(data)
    ELSE IF typ.t = "str" /\ typ.s = T_ping
    THEN [ out |-> << send("pong", "pong", << >>, << >>) >>,
           to  |-> "recv",
           cmd |-> << >> ]
    ELSE NoNotes("recv")

\* on_type without the ping branch
on_type_noping(data, typ) ==
    IF typ.t = "str" /\ typ.s = T_open
    THEN on_open(data)
    ELSE [ out |-> << send("error", "Unknown type: {}", << py_repr(typ) >>, << >>) >>,
           to  |-> "recv",
           cmd |-> << >> ]

\* lines 145-158, typ being data.get("type")
on_type(data, typ) ==
    IF typ.t = "str" /\ typ.s = T_open
    THEN on_open(data)
    ELSE IF typ.t = "str" /\ typ.s = T_ping
    THEN [ out |-> << send("pong", "pong", << >>, << >>) >>,
           to  |-> "recv",
           cmd |-> << >> ]
    ELSE [ out |-> << send("error", "Unknown type: {}", << py_repr(typ) >>, << >>) >>,
           to  |-> "recv",
           cmd |-> << >> ]

\* lines 138-144 on the result of json.loads: data.get of a value that is no
\* dict raises AttributeError
on_loaded(j) ==
    IF j.raised
    THEN [ out |-> << send("error", "Please send data in JSON format. Example: {\"type\":\"open\",\"url\":\"...\"}",
                            << >>, << >>) >>,
           to  |-> "recv",
           cmd |-> << >> ]
    ELSE IF j.value.t # "dict"
    THEN NoNotes("crashed")
    ELSE on_type(j.value, dict_get(j.value.type))

on_text(msg) == on_loaded(json_loads(msg))

(***************************************************************************)
(* The connection session (websocket_handler, server.py:129-164)           *)
(***************************************************************************)

\* the notifications of one dispatch, marked with the request they answer
Tag(notes, r) ==
    [ i \in DOMAIN notes |->
        [ type |-> notes[i].type, fmt |-> notes[i].fmt, args |-> notes[i].args,
          extra |-> notes[i].extra, req |-> r ] ]

\* the client has sent its last frame: a CLOSE or an ERROR ends the stream
PeerDone(c) ==
    LET all == hist[c] \o inbox[c]
    IN  all # << >> /\ all[Len(all)].type \in { "CLOSE", "ERROR" }

\* lines 130-134: the handshake, then the greeting
Accept(c) ==
    /\ pc[c] = "new"
    /\ sent' = [ sent EXCEPT ![c] =
                   @ \o Tag(<< send("log", "WebSocket connected. Please send a YouTube URL.",
                                    << >>, << >>) >>, 0) ]
    /\ pc' = [ pc EXCEPT ![c] = "recv" ]
    /\ UNCHANGED << inbox, hist, attempts, procs, cur, rc, cmd, urlVars >>

\* the client sends a frame; aiohttp queues it until the loop reads it
ClientSend(c, k) ==
    /\ pc[c] \in { "new", "recv", "spawn", "wait", "await_out", "await_err" }
    /\ Len(hist[c]) + Len(inbox[c]) < MaxFrames
    /\ ~PeerDone(c)
    /\ inbox' = [ inbox EXCEPT ![c] = Append(@, Frames[k]) ]
    /\ UNCHANGED << pc, hist, sent, attempts, procs, cur, rc, cmd, urlVars >>

\* on_text of every text frame a client may send, computed once
on_frame == [ f \in { g \in Range(Frames) : g.type = "TEXT" } |-> on_text(f) ]

\* LoopText behind a lock shared by all connections: no dispatch while the
\* handler of another connection is inside run_adb_intent
LoopText_shared_lock(c) ==
    /\ \A d \in ConnIds \ { c } : pc[d] \notin { "spawn", "wait", "await_out", "await_err" }
    /\ pc[c] = "recv"
    /\ inbox[c] # << >>
    /\ Head(inbox[c]).type = "TEXT"
    /\ LET r == on_frame[Head(inbox[c])]
       IN  /\ sent' = [ sent EXCEPT ![c] = @ \o Tag(r.out, Len(hist[c]) + 1) ]
           /\ pc' = [ pc EXCEPT ![c] = r.to ]
           /\ cmd' = [ cmd EXCEPT ![c] = r.cmd ]
    /\ hist' = [ hist EXCEPT ![c] = Append(@, Head(inbox[c])) ]
    /\ inbox' = [ inbox EXCEPT ![c] = Tail(@) ]
    /\ UNCHANGED << attempts, procs, cur, rc, urlVars >>

\* line 137: a TEXT message is decoded and dispatched
LoopText(c) ==
    /\ pc[c] = "recv"
    /\ inbox[c] # << >>
    /\ Head(inbox[c]).type = "TEXT"
    /\ LET r == on_frame[Head(inbox[c])]
       IN  /\ sent' = [ sent EXCEPT ![c] = @ \o Tag(r.out, Len(hist[c]) + 1) ]
           /\ pc' = [ pc EXCEPT ![c] = r.to ]
           /\ cmd' = [ cmd EXCEPT ![c] = r.cmd ]
    /\ hist' = [ hist EXCEPT ![c] = Append(@, Head(inbox[c])) ]
    /\ inbox' = [ inbox EXCEPT ![c] = Tail(@) ]
    /\ UNCHANGED << attempts, procs, cur, rc, urlVars >>

\* LoopError that logs the error and goes on reading
LoopError_continue(c) ==
    /\ pc[c] = "recv"
    /\ inbox[c] # << >>
    /\ Head(inbox[c]).type = "ERROR"
    /\ hist' = [ hist EXCEPT ![c] = Append(@, Head(inbox[c])) ]
    /\ inbox' = [ inbox EXCEPT ![c] = Tail(@) ]
    /\ UNCHANGED << pc, sent, attempts, procs, cur, rc, cmd, urlVars >>

\* lines 160-162: an ERROR message breaks the loop
LoopError(c) ==
    /\ pc[c] = "recv"
    /\ inbox[c] # << >>
    /\ Head(inbox[c]).type = "ERROR"
    /\ pc' = [ pc EXCEPT ![c] = "closed" ]
    /\ hist' = [ hist EXCEPT ![c] = Append(@, Head(inbox[c])) ]
    /\ inbox' = [ inbox EXCEPT ![c] = Tail(@) ]
    /\ UNCHANGED << sent, attempts, procs, cur, rc, cmd, urlVars >>

\* line 136: the iteration over ws stops at a CLOSE message
LoopClose(c) ==
    /\ pc[c] = "recv"
    /\ inbox[c] # << >>
    /\ Head(inbox[c]).type = "CLOSE"
    /\ pc' = [ pc EXCEPT ![c] = "closed" ]
    /\ hist' = [ hist EXCEPT ![c] = Append(@, Head(inbox[c])) ]
    /\ inbox' = [ inbox EXCEPT ![c] = Tail(@) ]
    /\ UNCHANGED << sent, attempts, procs, cur, rc, cmd, urlVars >>

\* lines 137, 160: a message of any other type is skipped
LoopOther(c) ==
    /\ pc[c] = "recv"
    /\ inbox[c] # << >>
    /\ Head(inbox[c]).type \notin { "TEXT", "ERROR", "CLOSE" }
    /\ hist' = [ hist EXCEPT ![c] = Append(@, Head(inbox[c])) ]
    /\ inbox' = [ inbox EXCEPT ![c] = Tail(@) ]
    /\ UNCHANGED << pc, sent, attempts, procs, cur, rc, cmd, urlVars >>

(***************************************************************************)
(* The command runner (run_adb_intent, server.py:103-126)                  *)
(***************************************************************************)

NewProc(r, k) ==
    [ req |-> r, script |-> k, alive |-> TRUE, returncode |-> -1,
      todo  |-> [ s \in Streams |-> Scripts[k][s] ],
      code  |-> Scripts[k].code,
      buf   |-> [ s \in Streams |-> << >> ],
      wopen |-> [ s \in Streams |-> TRUE ],
      task  |-> [ s \in Streams |-> "running" ] ]

\* SpawnOk with the runner left to itself: the loop goes on reading
SpawnOk_detached(c, k) ==
    /\ pc[c] = "spawn"
    /\ attempts' = [ attempts EXCEPT ![c] = Append(@, [ req |-> Len(hist[c]), cmd |-> cmd[c], outcome |-> "started" ]) ]
    /\ procs' = [ procs EXCEPT ![c] = Append(@, NewProc(Len(hist[c]), k)) ]
    /\ cur' = [ cur EXCEPT ![c] = Len(procs[c]) + 1 ]
    /\ pc' = [ pc EXCEPT ![c] = "recv" ]
    /\ UNCHANGED << inbox, hist, sent, rc, cmd, urlVars >>

\* lines 104-108, 119-120: the process starts and both relay tasks are created
SpawnOk(c, k) ==
    /\ pc[c] = "spawn"
    /\ attempts' = [ attempts EXCEPT ![c] = Append(@, [ req |-> Len(hist[c]), cmd |-> cmd[c], outcome |-> "started" ]) ]
    /\ procs' = [ procs EXCEPT ![c] = Append(@, NewProc(Len(hist[c]), k)) ]
    /\ cur' = [ cur EXCEPT ![c] = Len(procs[c]) + 1 ]
    /\ pc' = [ pc EXCEPT ![c] = "wait" ]
    /\ UNCHANGED << inbox, hist, sent, rc, cmd, urlVars >>

\* SpawnNotFound without the return of line 111: the runner goes on to use
\* proc, which is unbound
SpawnNotFound_noreturn(c) ==
    /\ pc[c] = "spawn"
    /\ attempts' = [ attempts EXCEPT ![c] = Append(@, [ req |-> Len(hist[c]), cmd |-> cmd[c], outcome |-> "notfound" ]) ]
    /\ sent' = [ sent EXCEPT ![c] =
                   @ \o Tag(<< send("error", "adb was not found. Please check your PATH.",
                                    << >>, << >>) >>, Len(hist[c])) ]
    /\ pc' = [ pc EXCEPT ![c] = "crashed" ]
    /\ cmd' = [ cmd EXCEPT ![c] = << >> ]
    /\ UNCHANGED << inbox, hist, procs, cur, rc, urlVars >>

\* lines 109-111: FileNotFoundError
SpawnNotFound(c) ==
    /\ pc[c] = "spawn"
    /\ attempts' = [ attempts EXCEPT ![c] = Append(@, [ req |-> Len(hist[c]), cmd |-> cmd[c], outcome |-> "notfound" ]) ]
    /\ sent' = [ sent EXCEPT ![c] =
                   @ \o Tag(<< send("error", "adb was not found. Please check your PATH.",
                                    << >>, << >>) >>, Len(hist[c])) ]
    /\ pc' = [ pc EXCEPT ![c] = "recv" ]
    /\ cmd' = [ cmd EXCEPT ![c] = << >> ]
    /\ UNCHANGED << inbox, hist, procs, cur, rc, urlVars >>

\* lines 112-114: any other exception of create_subprocess_exec
SpawnFailed(c) ==
    /\ pc[c] = "spawn"
    /\ attempts' = [ attempts EXCEPT ![c] = Append(@, [ req |-> Len(hist[c]), cmd |-> cmd[c], outcome |-> "failed" ]) ]
    /\ sent' = [ sent EXCEPT ![c] =
                   @ \o Tag(<< send("error", "Failed to start process: {}", << E_perm >>, << >>) >>,
                            Len(hist[c])) ]
    /\ pc' = [ pc EXCEPT ![c] = "recv" ]
    /\ cmd' = [ cmd EXCEPT ![c] = << >> ]
    /\ UNCHANGED << inbox, hist, procs, cur, rc, urlVars >>

\* line 122: proc.wait() returns once the process has exited
WaitReturn(c) ==
    /\ pc[c] = "wait"
    /\ ~procs[c][cur[c]].alive
    /\ rc' = [ rc EXCEPT ![c] = procs[c][cur[c]].returncode ]
    /\ pc' = [ pc EXCEPT ![c] = "await_out" ]
    /\ UNCHANGED << inbox, hist, sent, attempts, procs, cur, cmd, urlVars >>

\* AwaitOut without the wait for the stdout relay
AwaitOut_nowait(c) ==
    /\ pc[c] = "await_out"
    /\ pc' = [ pc EXCEPT ![c] = "await_err" ]
    /\ UNCHANGED << inbox, hist, sent, attempts, procs, cur, rc, cmd, urlVars >>

\* line 123: await t_out
AwaitOut(c) ==
    /\ pc[c] = "await_out"
    /\ procs[c][cur[c]].task["stdout"] = "done"
    /\ pc' = [ pc EXCEPT ![c] = "await_err" ]
    /\ UNCHANGED << inbox, hist, sent, attempts, procs, cur, rc, cmd, urlVars >>

\* line 123: await t_out re-raises the exception that ended the stdout relay;
\* nothing catches it in run_adb_intent or in websocket_handler
AwaitOutRaise(c) ==
    /\ pc[c] = "await_out"
    /\ procs[c][cur[c]].task["stdout"] = "failed"
    /\ pc' = [ pc EXCEPT ![c] = "crashed" ]
    /\ UNCHANGED << inbox, hist, sent, attempts, procs, cur, rc, cmd, urlVars >>

\* line 124: the same for await t_err
AwaitErrRaise(c) ==
    /\ pc[c] = "await_err"
    /\ procs[c][cur[c]].task["stderr"] = "failed"
    /\ pc' = [ pc EXCEPT ![c] = "crashed" ]
    /\ UNCHANGED << inbox, hist, sent, attempts, procs, cur, rc, cmd, urlVars >>

\* AwaitErr without the wait for the stderr relay
AwaitErr_nowait(c) ==
    /\ pc[c] = "await_err"
    /\ sent' = [ sent EXCEPT ![c] =
                   @ \o Tag(<< send("done", "Exit code: {}", << IntStr(rc[c]) >>, << rc[c] >>) >>,
                            procs[c][cur[c]].req) ]
    /\ pc' = [ pc EXCEPT ![c] = "recv" ]
    /\ cur' = [ cur EXCEPT ![c] = 0 ]
    /\ rc' = [ rc EXCEPT ![c] = 0 ]
    /\ cmd' = [ cmd EXCEPT ![c] = << >> ]
    /\ UNCHANGED << inbox, hist, attempts, procs, urlVars >>

\* lines 124-126: await t_err, then the done notification
AwaitErr(c) ==
    /\ pc[c] = "await_err"
    /\ procs[c][cur[c]].task["stderr"] = "done"
    /\ sent' = [ sent EXCEPT ![c] =
                   @ \o Tag(<< send("done", "Exit code: {}", << IntStr(rc[c]) >>, << rc[c] >>) >>,
                            procs[c][cur[c]].req) ]
    /\ pc' = [ pc EXCEPT ![c] = "recv" ]
    /\ cur' = [ cur EXCEPT ![c] = 0 ]
    /\ rc' = [ rc EXCEPT ![c] = 0 ]
    /\ cmd' = [ cmd EXCEPT ![c] = << >> ]
    /\ UNCHANGED << inbox, hist, attempts, procs, urlVars >>

(***************************************************************************)
(* The output relay (stream_process_output, server.py:69-78)               *)
(***************************************************************************)

\* stream.readline(): a line up to and including its newline; at end of
\* stream what is left, possibly nothing; not ready otherwise.  When the
\* bytes before the newline, or the bytes buffered without a newline, are
\* more than the limit, it drops them and raises ValueError
readline(buf, wopen) ==
    LET nl == Find(buf, {"\n"}, 1)
    IN  IF OverLimit \in Range(IF nl > 0 THEN Slice(buf, 1, nl) ELSE buf)
        THEN [ ready |-> TRUE, raised |-> TRUE, line |-> << >>,
               rest |-> IF nl > 0 THEN Slice(buf, nl + 1, Len(buf)) ELSE << >> ]
        ELSE IF nl > 0
        THEN [ ready |-> TRUE, raised |-> FALSE,
               line |-> Slice(buf, 1, nl), rest |-> Slice(buf, nl + 1, Len(buf)) ]
        ELSE [ ready |-> ~wopen, raised |-> FALSE, line |-> buf, rest |-> << >> ]

\* bytes.decode(errors="replace"): an undecodable byte becomes U+FFFD
decode(bytes) ==
    [ i \in DOMAIN bytes |-> IF bytes[i] = "0xFF" THEN "U+FFFD" ELSE bytes[i] ]

\* lines 74, 77-78: one line is read and forwarded
RelayLine(c, i, s) ==
    \E p \in { procs[c][i] } : \E r \in { readline(p.buf[s], p.wopen[s]) } :
        /\ p.task[s] = "running"
        /\ r.ready
        /\ ~r.raised
        /\ r.line # << >>
        /\ procs' = [ procs EXCEPT ![c][i].buf[s] = r.rest ]
        /\ sent' = [ sent EXCEPT ![c] =
                       @ \o Tag(<< send("log", "[{}] {}",
                                        << IF s = "stdout" THEN L_stdout ELSE L_stderr,
                                           rstrip(decode(r.line), Whitespace) >>,
                                        << >>) >>, p.req) ]
        /\ UNCHANGED << pc, inbox, hist, attempts, cur, rc, cmd, urlVars >>

\* lines 74-76: readline returns b"" at end of stream and the task ends
RelayEof(c, i, s) ==
    \E p \in { procs[c][i] } : \E r \in { readline(p.buf[s], p.wopen[s]) } :
        /\ p.task[s] = "running"
        /\ r.ready
        /\ ~r.raised
        /\ r.line = << >>
        /\ procs' = [ procs EXCEPT ![c][i].task[s] = "done" ]
        /\ UNCHANGED << pc, inbox, hist, sent, attempts, cur, rc, cmd, urlVars >>

\* line 74: readline raises ValueError, which ends the task
RelayRaise(c, i, s) ==
    \E p \in { procs[c][i] } : \E r \in { readline(p.buf[s], p.wopen[s]) } :
        /\ p.task[s] = "running"
        /\ r.ready
        /\ r.raised
        /\ procs' = [ procs EXCEPT ![c][i].buf[s] = r.rest, ![c][i].task[s] = "failed" ]
        /\ UNCHANGED << pc, inbox, hist, sent, attempts, cur, rc, cmd, urlVars >>

(***************************************************************************)
(* The external process: it writes to its pipes, closes them and exits.    *)
(***************************************************************************)

\* the process writes what it has for one pipe
ProcWrite(c, i, s) ==
    /\ procs[c][i].alive
    /\ procs[c][i].wopen[s]
    /\ procs[c][i].todo[s] # << >>
    /\ procs' = [ procs EXCEPT ![c][i].buf[s] = @ \o procs[c][i].todo[s],
                               ![c][i].todo[s] = << >> ]
    /\ UNCHANGED << pc, inbox, hist, sent, attempts, cur, rc, cmd, urlVars >>

\* the write end of a pipe closes (by the process, or at its exit, or later
\* when a child that inherited it lets go)
ProcClose(c, i, s) ==
    /\ procs[c][i].wopen[s]
    /\ procs[c][i].todo[s] = << >>
    /\ procs' = [ procs EXCEPT ![c][i].wopen[s] = FALSE ]
    /\ UNCHANGED << pc, inbox, hist, sent, attempts, cur, rc, cmd, urlVars >>

\* the process exits with its status
ProcExit(c, i) ==
    /\ procs[c][i].alive
    /\ \A s \in Streams : procs[c][i].todo[s] = << >>
    /\ procs' = [ procs EXCEPT ![c][i].alive = FALSE,
                               ![c][i].returncode = procs[c][i].code ]
    /\ UNCHANGED << pc, inbox, hist, sent, attempts, cur, rc, cmd, urlVars >>

(***************************************************************************)
(* The specification of one connection.                                    *)
(***************************************************************************)

UrlOff ==
    [ lead |-> << >>, scheme |-> << >>, sep |-> << >>, userinfo |-> << >>,
      host |-> << >>, port |-> << >>, path |-> << >>, tail |-> << >> ]

Init ==
    /\ pc = [ c \in ConnIds |-> IF c = "A" THEN "new" ELSE "absent" ]
    /\ inbox = [ c \in ConnIds |-> << >> ]
    /\ hist = [ c \in ConnIds |-> << >> ]
    /\ sent = [ c \in ConnIds |-> << >> ]
    /\ attempts = [ c \in ConnIds |-> << >> ]
    /\ procs = [ c \in ConnIds |-> << >> ]
    /\ cur = [ c \in ConnIds |-> 0 ]
    /\ rc = [ c \in ConnIds |-> 0 ]
    /\ cmd = [ c \in ConnIds |-> << >> ]
    /\ uin = UrlOff
    /\ uphase = "off"
    /\ ures = FALSE
    /\ ucmd = << >>

Next ==
    \E c \in ConnIds :
        \/ Accept(c)
        \/ \E k \in DOMAIN Frames : ClientSend(c, k)
        \/ LoopText(c)
        \/ LoopError(c)
        \/ LoopClose(c)
        \/ LoopOther(c)
        \/ \E k \in DOMAIN Scripts : SpawnOk(c, k)
        \/ SpawnNotFound(c)
        \/ SpawnFailed(c)
        \/ WaitReturn(c)
        \/ AwaitOut(c)
        \/ AwaitErr(c)
        \/ AwaitOutRaise(c)
        \/ AwaitErrRaise(c)
        \/ \E i \in DOMAIN procs[c] : \E s \in Streams : RelayLine(c, i, s)
        \/ \E i \in DOMAIN procs[c] : \E s \in Streams : RelayEof(c, i, s)
        \/ \E i \in DOMAIN procs[c] : \E s \in Streams : RelayRaise(c, i, s)
        \/ \E i \in DOMAIN procs[c] : \E s \in Streams : ProcWrite(c, i, s)
        \/ \E i \in DOMAIN procs[c] : \E s \in Streams : ProcClose(c, i, s)
        \/ \E i \in DOMAIN procs[c] : ProcExit(c, i)

Spec == Init /\ [][Next]_vars

\* the event loop runs every task that is ready: the handler's next step is
\* taken when it can be, and so is each relay's.  Nothing is assumed of the
\* client or of the external process
HandlerStep(c) ==
    \/ LoopText(c)
    \/ LoopError(c)
    \/ LoopClose(c)
    \/ LoopOther(c)
    \/ \E k \in DOMAIN Scripts : SpawnOk(c, k)
    \/ SpawnNotFound(c)
    \/ SpawnFailed(c)
    \/ WaitReturn(c)
    \/ AwaitOut(c)
    \/ AwaitErr(c)
    \/ AwaitOutRaise(c)
    \/ AwaitErrRaise(c)

RelayStep(c, s) ==
    \E i \in DOMAIN procs[c] : RelayLine(c, i, s) \/ RelayEof(c, i, s) \/ RelayRaise(c, i, s)

Fairness ==
    \A c \in ConnIds :
        /\ WF_vars(HandlerStep(c))
        /\ \A s \in Streams : WF_vars(RelayStep(c, s))

SpecFair == Init /\ [][Next]_vars /\ Fairness


(***************************************************************************)
(* The specification of two connections: each handler is a coroutine of    *)
(* its own on the one event loop.  The clients send fewer frames, of fewer *)
(* kinds, than in Spec, and the processes follow one script.               *)
(***************************************************************************)

\* frames each client of the pair may send
MaxPairFrames == 1

\* a ping, an open with a valid URL, a CLOSE
PairFrames == { 3, 6, 13 }

\* the processes of A write a line on stdout and unterminated text on
\* stderr, those of B write nothing
PairScripts(c) == IF c = "A" THEN { 2 } ELSE { 1 }

PairSend(c, k) ==
    /\ pc[c] \in { "new", "recv", "spawn", "wait", "await_out", "await_err" }
    /\ Len(hist[c]) + Len(inbox[c]) < MaxPairFrames
    /\ ~PeerDone(c)
    /\ inbox' = [ inbox EXCEPT ![c] = Append(@, Frames[k]) ]
    /\ UNCHANGED << pc, hist, sent, attempts, procs, cur, rc, cmd, urlVars >>

InitPair ==
    /\ pc = [ c \in ConnIds |-> "new" ]
    /\ inbox = [ c \in ConnIds |-> << >> ]
    /\ hist = [ c \in ConnIds |-> << >> ]
    /\ sent = [ c \in ConnIds |-> << >> ]
    /\ attempts = [ c \in ConnIds |-> << >> ]
    /\ procs = [ c \in ConnIds |-> << >> ]
    /\ cur = [ c \in ConnIds |-> 0 ]
    /\ rc = [ c \in ConnIds |-> 0 ]
    /\ cmd = [ c \in ConnIds |-> << >> ]
    /\ uin = UrlOff
    /\ uphase = "off"
    /\ ures = FALSE
    /\ ucmd = << >>

NextPair ==
    \E c \in ConnIds :
        \/ Accept(c)
        \/ \E k \in PairFrames : PairSend(c, k)
        \/ LoopText(c)
        \/ LoopClose(c)
        \/ \E k \in PairScripts(c) : SpawnOk(c, k)
        \/ SpawnNotFound(c)
        \/ WaitReturn(c)
        \/ AwaitOut(c)
        \/ AwaitErr(c)
        \/ \E i \in DOMAIN procs[c] : \E s \in Streams : RelayLine(c, i, s)
        \/ \E i \in DOMAIN procs[c] : \E s \in Streams : RelayEof(c, i, s)
        \/ \E i \in DOMAIN procs[c] : \E s \in Streams : ProcWrite(c, i, s)
        \/ \E i \in DOMAIN procs[c] : \E s \in Streams : ProcClose(c, i, s)
        \/ \E i \in DOMAIN procs[c] : ProcExit(c, i)

SpecPair == InitPair /\ [][NextPair]_vars


(***************************************************************************)
(* The specification of the pure functions: is_valid_youtube_url and the   *)
(* cmd of run_adb_intent, applied to texts put together from components.   *)
(***************************************************************************)

\* text before the scheme: none, or a C0 control character (written "^A")
UrlLeads ==
    { <<>>,
      <<"^A">> }

\* scheme names; the empty one stands for a text with no scheme and no colon
UrlSchemes ==
    { <<>>,
      <<"h","t","t","p">>,
      <<"h","t","t","p","s">>,
      <<"H","T","T","P","S">>,
      <<"f","t","p">> }

\* userinfo, with its @
UrlUserinfos ==
    { <<>>,
      <<"u","@">>,
      <<"y","o","u","t","u",".","b","e","@">> }

\* hosts
UrlHosts ==
    { <<>>,
      <<"y","o","u","t","u","b","e",".","c","o","m">>,
      <<"w","w","w",".","y","o","u","t","u","b","e",".","c","o","m">>,
      <<"m",".","y","o","u","t","u","b","e",".","c","o","m">>,
      <<"y","o","u","t","u",".","b","e">>,
      <<"w","w","w",".","y","o","u","t","u",".","b","e">>,
      <<"Y","o","u","T","u","b","e",".","c","o","m">>,
      <<"e","v","i","l",".","c","o","m">>,
      <<"y","o","u","t","u","b","e",".","c","o","m",".","e","v","i","l",".","c","o","m">>,
      <<"y","o","u","\t","t","u","b","e",".","c","o","m">>,
      <<"[","y","o","u","t","u",".","b","e">> }

\* port, with its colon
UrlPorts ==
    { <<>>,
      <<":","4","4","3">> }

\* paths
UrlPaths ==
    { <<>>,
      <<"/">>,
      <<"/","w","a","t","c","h">>,
      <<"/","w","a","t","c","h","x">>,
      <<"/","s","h","o","r","t","s","/","a">>,
      <<"/","l","i","v","e">>,
      <<"/","e","m","b","e","d","/","a">>,
      <<"/","a">>,
      <<"/","x","/","w","a","t","c","h">>,
      <<"/",";","a">>,
      <<"/","W","a","t","c","h">>,
      <<"/","w","a","t","c","h",";","x">> }

\* query and fragment
UrlTails ==
    { <<>>,
      <<"?","v","=","a"," ","b","'","c">>,
      <<"#","/","w","a","t","c","h">>,
      <<"?",";","$","\"","\\","&">> }

UrlSeps == { << >>, <<"/","/">> }

\* the component records: an authority needs its "//"
UrlInputs ==
    { u \in [ lead : UrlLeads, scheme : UrlSchemes, sep : UrlSeps,
              userinfo : UrlUserinfos, host : UrlHosts, port : UrlPorts,
              path : UrlPaths, tail : UrlTails ] :
        u.sep = << >> => (u.userinfo = << >> /\ u.host = << >> /\ u.port = << >>) }

\* the text of a component record
UrlText(u) ==
    u.lead \o (IF u.scheme = << >> THEN << >> ELSE u.scheme \o <<":">>) \o u.sep
           \o u.userinfo \o u.host \o u.port \o u.path \o u.tail

InitUrl ==
    /\ pc = [ c \in ConnIds |-> "absent" ]
    /\ inbox = [ c \in ConnIds |-> << >> ]
    /\ hist = [ c \in ConnIds |-> << >> ]
    /\ sent = [ c \in ConnIds |-> << >> ]
    /\ attempts = [ c \in ConnIds |-> << >> ]
    /\ procs = [ c \in ConnIds |-> << >> ]
    /\ cur = [ c \in ConnIds |-> 0 ]
    /\ rc = [ c \in ConnIds |-> 0 ]
    /\ cmd = [ c \in ConnIds |-> << >> ]
    /\ uin \in UrlInputs
    /\ uphase = "input"
    /\ ures = FALSE
    /\ ucmd = << >>

\* line 149: the validator is applied
UrlValidate ==
    /\ uphase = "input"
    /\ ures' = is_valid_youtube_url(UrlText(uin))
    /\ uphase' = "validated"
    /\ UNCHANGED << connVars, uin, ucmd >>

\* lines 153, 86-99: the cmd of a validated URL is built
UrlBuild ==
    /\ uphase = "validated"
    /\ ures
    /\ ucmd' = adb_cmd(UrlText(uin))
    /\ uphase' = "built"
    /\ UNCHANGED << connVars, uin, ures >>

NextUrl == UrlValidate \/ UrlBuild

SpecUrl == InitUrl /\ [][NextUrl]_vars


(***************************************************************************)
(* Properties.                                                             *)
(***************************************************************************)

IsRelayLog(n) == n.type = "log" /\ n.fmt = "[{}] {}"

IsRelayLogOf(n, prefix) == IsRelayLog(n) /\ n.args[1] = prefix

\* the positions of sent[c] that answer request r
NotesOf(c, r) == { i \in DOMAIN sent[c] : sent[c][i].req = r }

\* the notifications that answer request r, in order
NoteSeq(c, r) == SelectSeq(sent[c], LAMBDA n : n.req = r)

DoneSent(c, r) == \E i \in NotesOf(c, r) : sent[c][i].type = "done"

\* an invocation is active until its process has exited and both relays ended
Active(p) == p.alive \/ p.task["stdout"] = "running" \/ p.task["stderr"] = "running"

IsDict(m) == m.type = "TEXT" /\ m.syntax = "json" /\ m.value.t = "dict"

IsOpen(m) == IsDict(m) /\ m.value.type.t = "str" /\ m.value.type.s = T_open

IsPing(m) == IsDict(m) /\ m.value.type.t = "str" /\ m.value.type.s = T_ping

\* the session has dispatched request r and no later one, and stands in its
\* read loop
IdleAfter(c, r) == r = Len(hist[c]) => pc[c] \in { "recv" }

\* C1: the done notification of an invocation comes after every [stdout] and
\* [stderr] log of that invocation: no relay log of a request follows the done
\* of the same request on the connection.
C1_DoneAfterRelayLogs ==
    \A c \in ConnIds : \A i \in DOMAIN sent[c] :
        sent[c][i].type = "done" =>
            \A j \in (i + 1)..Len(sent[c]) :
                ~(IsRelayLog(sent[c][j]) /\ sent[c][j].req = sent[c][i].req)

\* a done that follows relay logs of both channels
C1_Witness ==
    \E c \in ConnIds : \E i \in DOMAIN sent[c] :
        /\ sent[c][i].type = "done"
        /\ \E j \in 1..(i - 1) : IsRelayLogOf(sent[c][j], L_stdout) /\ sent[c][j].req = sent[c][i].req
        /\ \E j \in 1..(i - 1) : IsRelayLogOf(sent[c][j], L_stderr) /\ sent[c][j].req = sent[c][i].req

\* C2: from the start of an invocation until its done is sent, no later
\* message is dispatched and no notification of a later request (a pong or
\* any other dispatch result) is sent.
C2_NoDispatchWhileRunning ==
    \A c \in ConnIds : \A k \in DOMAIN procs[c] :
        ~DoneSent(c, procs[c][k].req) =>
            /\ Len(hist[c]) = procs[c][k].req
            /\ \A j \in DOMAIN sent[c] : sent[c][j].req <= procs[c][k].req

\* a ping waits in the queue while the invocation is running
C2_Witness ==
    \E c \in ConnIds :
        /\ pc[c] = "wait"
        /\ inbox[c] # << >>
        /\ IsPing(inbox[c][1])

\* C3: a session has at most one active invocation: no process is started
\* while an earlier one is alive or has a relay that has not ended.
C3_AtMostOneActive ==
    \A c \in ConnIds : \A k \in DOMAIN procs[c] : \A l \in DOMAIN procs[c] :
        (Active(procs[c][k]) /\ Active(procs[c][l])) => k = l

\* a second process runs on a session, after two open requests
C3_Witness ==
    \E c \in ConnIds : Len(procs[c]) >= 2 /\ Active(procs[c][2])

\* the open frames a client may send whose trimmed url the validator accepts
OpensAccepted ==
    { f \in Range(Frames) :
        /\ IsOpen(f)
        /\ f.value.url.t = "str"
        /\ is_valid_youtube_url(strip(f.value.url.s)) }

\* the cmd the runner builds for each of them
CmdOfOpen == [ f \in OpensAccepted |-> adb_cmd(strip(f.value.url.s)) ]

\* C4: every call of create_subprocess_exec, and every cmd the runner holds,
\* belongs to an open request whose trimmed URL the validator accepts, and
\* carries the cmd of that URL.
C4_StartOnlyValidated ==
    \A c \in ConnIds :
        /\ \A k \in DOMAIN attempts[c] :
              /\ hist[c][attempts[c][k].req] \in OpensAccepted
              /\ attempts[c][k].cmd = CmdOfOpen[hist[c][attempts[c][k].req]]
        /\ pc[c] \in { "spawn", "wait", "await_out", "await_err" } =>
              hist[c][Len(hist[c])] \in OpensAccepted

\* a start is attempted for the second request of a session whose first
\* request, an open too, started nothing
C4_Witness ==
    \E c \in ConnIds :
        /\ Len(attempts[c]) = 1
        /\ attempts[c][1].req = 2
        /\ IsOpen(hist[c][1])


\* a text message that does not decode to a JSON object
Undecodable(m) == m.type = "TEXT" /\ (m.syntax # "json" \/ m.value.t # "dict")

NoStartFor(c, r) ==
    /\ \A k \in DOMAIN attempts[c] : attempts[c][k].req # r
    /\ \A k \in DOMAIN procs[c] : procs[c][k].req # r

\* C5: every text message that is not JSON, or is JSON but no object, is
\* answered by exactly one notification, an error; no process is started for
\* it; the session stands in its read loop afterwards.
C5_UndecodableYieldsError ==
    \A c \in ConnIds : \A r \in DOMAIN hist[c] :
        Undecodable(hist[c][r]) =>
            /\ Cardinality(NotesOf(c, r)) = 1
            /\ \A i \in NotesOf(c, r) : sent[c][i].type = "error"
            /\ NoStartFor(c, r)
            /\ IdleAfter(c, r)

PongsSent(c) == { i \in DOMAIN sent[c] : sent[c][i].type = "pong" }

PingsDispatched(c) == { r \in DOMAIN hist[c] : IsPing(hist[c][r]) }

\* C6: every dispatched ping is answered by exactly one notification, a pong
\* with message pong, whatever was handled before it; a connection has sent
\* as many pongs as it has dispatched pings.
C6_PingPong ==
    \A c \in ConnIds :
        /\ \A r \in PingsDispatched(c) :
              /\ Cardinality(NotesOf(c, r)) = 1
              /\ \A i \in NotesOf(c, r) :
                    /\ sent[c][i].type = "pong"
                    /\ sent[c][i].fmt = "pong"
                    /\ sent[c][i].args = << >>
                    /\ sent[c][i].extra = << >>
        /\ Cardinality(PongsSent(c)) = Cardinality(PingsDispatched(c))

\* a ping is answered after an invocation that ran to its done
C6_Witness ==
    \E c \in ConnIds :
        /\ Len(hist[c]) = 2
        /\ IsPing(hist[c][2])
        /\ DoneSent(c, 1)
        /\ PongsSent(c) # { }

\* the url of an open request as the handler trims it: a missing url counts
\* as the empty string
HasTextUrl(m) == IsOpen(m) /\ m.value.url.t \in { "str", "absent", "none" }

TrimmedUrl(m) == IF m.value.url.t = "str" THEN strip(m.value.url.s) ELSE << >>

\* the open frames a client may send whose trimmed url the validator rejects
OpensRejected ==
    { f \in Range(Frames) : HasTextUrl(f) /\ ~is_valid_youtube_url(TrimmedUrl(f)) }

\* the notifications ns are the echo of url and then the invalid-URL error
EchoThenInvalid(ns, url) ==
    /\ Len(ns) = 2
    /\ ns[1].type = "log"
    /\ ns[1].fmt = "Received URL: {}"
    /\ ns[1].args = << url >>
    /\ ns[2].type = "error"
    /\ ns[2].fmt = "The URL is invalid as a YouTube URL (check allowed domains/formats)."

\* C7: an open request whose trimmed URL the validator rejects (a missing,
\* empty or blank url included) is answered by the echo log and then the
\* invalid-URL error and by nothing else: no command log, no relay log, no
\* done; no process is started; the session stands in its read loop.
C7_InvalidUrl ==
    \A c \in ConnIds : \A r \in DOMAIN hist[c] :
        hist[c][r] \in OpensRejected =>
            /\ EchoThenInvalid(NoteSeq(c, r), TrimmedUrl(hist[c][r]))
            /\ NoStartFor(c, r)
            /\ IdleAfter(c, r)

\* an open with a blank url and an open with a URL of another host have both
\* been dispatched
C7_Witness ==
    \E c \in ConnIds :
        /\ Len(hist[c]) = 2
        /\ HasTextUrl(hist[c][1]) /\ hist[c][1].value.url.t = "str"
        /\ TrimmedUrl(hist[c][1]) = << >>
        /\ HasTextUrl(hist[c][2])
        /\ TrimmedUrl(hist[c][2]) = U_evil

StartErrorFmt(outcome) ==
    IF outcome = "notfound"
    THEN "adb was not found. Please check your PATH."
    ELSE "Failed to start process: {}"

\* the notifications ns are the echo, the command log and then one error of
\* the given text
EchoCmdThenError(ns, fmt) ==
    /\ Len(ns) = 3
    /\ ns[1].fmt = "Received URL: {}"
    /\ ns[2].fmt = "Command executed: {}"
    /\ ns[3].type = "error"
    /\ ns[3].fmt = fmt

\* C8: a start attempt that fails, the binary missing or any other failure,
\* is answered after the echo and the command log by exactly one error, the
\* one of its kind of failure; the request has no done and no relay log, no
\* process and no relay task exist for it, and the session stands in its read
\* loop.
C8_StartFailure ==
    \A c \in ConnIds : \A k \in DOMAIN attempts[c] :
        attempts[c][k].outcome # "started" =>
            /\ EchoCmdThenError(NoteSeq(c, attempts[c][k].req),
                                StartErrorFmt(attempts[c][k].outcome))
            /\ \A l \in DOMAIN procs[c] : procs[c][l].req # attempts[c][k].req
            /\ cur[c] = 0 \/ procs[c][cur[c]].req # attempts[c][k].req
            /\ IdleAfter(c, attempts[c][k].req)

\* both kinds of failure have happened on one session
C8_Witness ==
    \E c \in ConnIds :
        /\ Len(attempts[c]) = 2
        /\ attempts[c][1].outcome = "notfound"
        /\ attempts[c][2].outcome = "failed"


(***************************************************************************)
(* The validator's rule, stated on the components a URL text is written    *)
(* from (scheme, userinfo, host, port, path) and not on the parse result.  *)
(***************************************************************************)

ListedHosts == { H_youtube, H_www_youtube, H_m_youtube, H_youtu_be, H_www_youtu_be }

\* a component with tab, CR and LF left out
Plain(s) == SelectSeq(s, LAMBDA ch : ch \notin { "\t", "\r", "\n" })

\* the same in lower case
Folded(s) == lower(Plain(s))

RuleScheme(u) == Folded(u.scheme) \in { S_http, S_https }

BeginsWith(path, p) == Len(path) >= Len(p) /\ SubSeq(path, 1, Len(p)) = p

RulePath(host, path) ==
    IF host \in { H_youtu_be, H_www_youtu_be }
    THEN path \notin { << >>, <<"/">> }
    ELSE BeginsWith(path, P_watch) \/ BeginsWith(path, P_shorts)
            \/ BeginsWith(path, P_live) \/ BeginsWith(path, P_embed)

\* the positions of the semicolons in the last segment of a path
LastSegmentSemis(path) ==
    { i \in DOMAIN path : path[i] = ";" /\ \A j \in i..Len(path) : path[j] # "/" }

\* a path without the ;parameters of its last segment
PathNoParams(path) ==
    IF LastSegmentSemis(path) = { }
    THEN path
    ELSE SubSeq(path, 1,
                (CHOOSE i \in LastSegmentSemis(path) :
                    \A j \in LastSegmentSemis(path) : i <= j) - 1)

\* C9 as stated: the validator returns true iff the scheme is http or https,
\* the host, compared without regard to case, is one of the five listed hosts,
\* and the path satisfies the rule of that host.
C9_ValidatorIffHostRule ==
    uphase # "input" =>
        (ures <=> /\ RuleScheme(uin)
                  /\ Folded(uin.host) \in ListedHosts
                  /\ RulePath(Folded(uin.host), uin.path))

\* C9 amended: the validator returns true iff the scheme is http or https,
\* the whole authority (userinfo, host and port together), compared without
\* regard to case, is one of the five listed hosts, and the path without the
\* ;parameters of its last segment satisfies the rule of that host.  No URL
\* whose host is outside the list is accepted.
C9_ValidatorIffAuthorityRule ==
    uphase # "input" =>
        /\ ures <=> /\ RuleScheme(uin)
                    /\ Folded(uin.userinfo \o uin.host \o uin.port) \in ListedHosts
                    /\ RulePath(Folded(uin.userinfo \o uin.host \o uin.port),
                                PathNoParams(Plain(uin.path)))
        /\ ures => Folded(uin.host) \in ListedHosts

\* a URL with the host in mixed case, a query and a path with ;parameters is
\* accepted
C9_Witness ==
    /\ uphase = "validated"
    /\ ures
    /\ uin.host = <<"Y","o","u","T","u","b","e",".","c","o","m">>
    /\ uin.path = <<"/","w","a","t","c","h",";","x">>
    /\ uin.tail # << >>


(***************************************************************************)
(* How a POSIX shell splits a command line into words.  A mode is the      *)
(* quoting state before a character: "N" unquoted, "S" inside single       *)
(* quotes, "D" inside double quotes, "E" and "DE" after a backslash.       *)
(***************************************************************************)

ShellStep(m, ch) ==
    CASE m = "N"  -> (IF ch = "'" THEN "S" ELSE IF ch = "\"" THEN "D"
                      ELSE IF ch = "\\" THEN "E" ELSE "N")
      [] m = "S"  -> (IF ch = "'" THEN "N" ELSE "S")
      [] m = "D"  -> (IF ch = "\"" THEN "N" ELSE IF ch = "\\" THEN "DE" ELSE "D")
      [] m = "E"  -> "N"
      [] m = "DE" -> "D"

RECURSIVE ShellModes(_, _, _, _)
RECURSIVE ShellModesJoin(_, _, _, _)

\* the modes before the characters lo..hi of s, m being the mode before lo
ShellModes(s, lo, hi, m) ==
    IF lo > hi THEN << >>
    ELSE IF lo = hi THEN << m >>
    ELSE ShellModesJoin(s, (lo + hi) \div 2, hi, ShellModes(s, lo, (lo + hi) \div 2, m))

ShellModesJoin(s, mid, hi, left) ==
    left \o ShellModes(s, mid + 1, hi, ShellStep(left[Len(left)], s[mid]))

\* characters a shell acts on when they stand unquoted (the backquote is
\* written "BQ")
ShellMeta ==
    { "|", "&", ";", "<", ">", "(", ")", "$", "BQ", "*", "?", "[", "]", "#", "~",
      "!", "{", "}", "\n", "\t" }

\* some character of s is left to the shell to interpret
ShellActive(s, modes) ==
    \E i \in DOMAIN s :
        \/ modes[i] = "N" /\ s[i] \in ShellMeta
        \/ modes[i] = "D" /\ s[i] \in { "$", "BQ" }

\* every quote of s is closed
ShellClosed(s, modes) ==
    s = << >> \/ ShellStep(modes[Len(s)], s[Len(s)]) = "N"

\* the unquoted spaces of s
WordBreaks(s, modes) == { i \in DOMAIN s : modes[i] = "N" /\ s[i] = " " }

\* the character at i belongs to the text of a word
IsLiteral(s, modes, i) ==
    \/ modes[i] \in { "E", "DE" }
    \/ modes[i] = "S" /\ s[i] # "'"
    \/ modes[i] = "D" /\ s[i] \notin { "\"", "\\" }
    \/ modes[i] = "N" /\ s[i] \notin { "'", "\"", "\\", " " }

NthBreak(breaks, n) ==
    CHOOSE i \in breaks : Cardinality({ j \in breaks : j < i }) = n - 1

WordLo(breaks, k) == IF k = 1 THEN 1 ELSE NthBreak(breaks, k - 1) + 1

WordHi(s, breaks, k) ==
    IF k = Cardinality(breaks) + 1 THEN Len(s) ELSE NthBreak(breaks, k) - 1

LiteralPositions(s, modes, lo, hi) ==
    SelectSeq([ i \in 1..(hi - lo + 1) |-> lo + i - 1 ], LAMBDA i : IsLiteral(s, modes, i))

WordAt(s, positions) == [ j \in DOMAIN positions |-> s[positions[j]] ]

ShellWords(s, modes, breaks) ==
    [ k \in 1..(Cardinality(breaks) + 1) |->
        WordAt(s, LiteralPositions(s, modes, WordLo(breaks, k), WordHi(s, breaks, k))) ]

ShellSplitWith(s, modes) ==
    [ ok    |-> ~ShellActive(s, modes) /\ ShellClosed(s, modes),
      words |-> ShellWords(s, modes, WordBreaks(s, modes)) ]

\* the words of the command line s, and whether s leaves nothing but word
\* splitting to the shell
ShellSplit(s) == ShellSplitWith(s, ShellModes(s, 1, Len(s), "N"))

\* C10: the cmd built for a validated URL has exactly three arguments: adb,
\* exec-out and one joined string; a shell splits the joined string into the
\* eight words am start -a android.intent.action.VIEW -d <url> -p <package>,
\* the URL unchanged as the one word after -d, and is left nothing else to
\* interpret, whatever characters the URL holds.
C10_FixedArgvShape ==
    uphase = "built" =>
        /\ Len(ucmd) = 3
        /\ ucmd[1] = A_adb
        /\ ucmd[2] = A_exec_out
        /\ ShellSplit(ucmd[3]) =
              [ ok    |-> TRUE,
                words |-> << A_am, A_start, A_a, A_VIEW, A_d, UrlText(uin), A_p, A_pkg >> ]

\* the cmd of a validated URL that holds a space, a single quote and a
\* control character
C10_Witness ==
    /\ uphase = "built"
    /\ " " \in Range(UrlText(uin))
    /\ "'" \in Range(UrlText(uin))
    /\ uin.lead # << >>


DonesOf(c, r) == { i \in NotesOf(c, r) : sent[c][i].type = "done" }

\* the handler of c is inside the runner of invocation k
InRunner(c, k) == cur[c] = k /\ pc[c] \in { "wait", "await_out", "await_err" }

\* C11: an invocation has at most one done, and exactly one once its process
\* has exited and the runner is no longer at work on it; the done is sent
\* after the process has exited, its message and its returncode field carry
\* the exit status of the process, zero or not; the request has no error
\* notification; after the done the session stands in its read loop.
C11_DoneCarriesExitStatus ==
    \A c \in ConnIds : \A k \in DOMAIN procs[c] :
        /\ Cardinality(DonesOf(c, procs[c][k].req)) <= 1
        /\ (~procs[c][k].alive /\ ~InRunner(c, k))
              => Cardinality(DonesOf(c, procs[c][k].req)) = 1
        /\ \A i \in DonesOf(c, procs[c][k].req) :
              /\ ~procs[c][k].alive
              /\ procs[c][k].returncode = procs[c][k].code
              /\ sent[c][i].fmt = "Exit code: {}"
              /\ sent[c][i].args = << IntStr(procs[c][k].code) >>
              /\ sent[c][i].extra = << procs[c][k].code >>
              /\ IdleAfter(c, procs[c][k].req)
        /\ \A i \in NotesOf(c, procs[c][k].req) : sent[c][i].type # "error"


\* all the state of one connection
ConnState(c) ==
    << pc[c], inbox[c], hist[c], sent[c], attempts[c], procs[c], cur[c], rc[c], cmd[c] >>

\* every notification on c answers a request dispatched on c, of the kind
\* that causes it: a pong answers a ping, any other (echo, command log, relay
\* log, error, done) an open; the greeting answers none
NotesBelong(c) ==
    \A i \in DOMAIN sent[c] :
        \/ sent[c][i].req = 0 /\ i = 1
        \/ /\ sent[c][i].req \in DOMAIN hist[c]
           /\ IF sent[c][i].type = "pong"
              THEN IsPing(hist[c][sent[c][i].req])
              ELSE IsOpen(hist[c][sent[c][i].req])

\* a text message at the head of the queue of a handler in its read loop can
\* be dispatched
NotBlocked(c) ==
    (pc[c] = "recv" /\ inbox[c] # << >> /\ Head(inbox[c]).type = "TEXT")
        => ENABLED LoopText(c)

\* C12: with two connections, a handler in its read loop can dispatch its
\* next message whatever the other connection is doing (running an
\* invocation, failed, closed); the notifications on a connection answer
\* requests of that connection only, one pong per ping dispatched on it; and
\* no step changes the state of more than one connection.
C12_ConnectionsIndependent ==
    /\ [](\A c \in ConnIds :
            /\ NotBlocked(c)
            /\ NotesBelong(c)
            /\ Cardinality(PongsSent(c)) = Cardinality(PingsDispatched(c)))
    /\ [][\A c \in ConnIds : \A d \in ConnIds \ { c } :
            ConnState(c)' # ConnState(c) => ConnState(d)' = ConnState(d)]_vars

\* while A waits for its process, which has sent output, a ping is at the
\* head of the queue of B, which stands in its read loop
C12_Witness ==
    /\ pc["A"] = "wait"
    /\ \E i \in DOMAIN sent["A"] : IsRelayLog(sent["A"][i])
    /\ pc["B"] = "recv"
    /\ inbox["B"] # << >>
    /\ IsPing(Head(inbox["B"]))


\* C13: no text message terminates the session or leaves it stuck: after the
\* dispatch of a text message the handler is in its read loop or inside the
\* command runner, from which it returns once the process has exited and
\* closed its streams.
C13_TextNeverEndsSession ==
    \A c \in ConnIds :
        (hist[c] # << >> /\ hist[c][Len(hist[c])].type = "TEXT")
            => pc[c] \in { "recv", "spawn", "wait", "await_out", "await_err" }


(***************************************************************************)
(* C14.  The relay of one channel.                                         *)
(***************************************************************************)

\* the lines of what was written to a pipe: each ends at its newline, the
\* last one at the end of the text if it has no newline
RECURSIVE LinesOf(_)
LinesOf(bytes) ==
    LET nl == Find(bytes, {"\n"}, 1)
    IN  IF bytes = << >> THEN << >>
        ELSE IF nl = 0 THEN << bytes >>
        ELSE << Slice(bytes, 1, nl - 1) >> \o LinesOf(Slice(bytes, nl + 1, Len(bytes)))

Label(s) == IF s = "stdout" THEN L_stdout ELSE L_stderr

\* the texts of the log notifications of request r that carry the label of
\* channel s, in the order they were sent
RelayTexts(c, r, s) ==
    LET logs == SelectSeq(sent[c], LAMBDA n : n.req = r /\ IsRelayLogOf(n, Label(s)))
    IN  [ j \in DOMAIN logs |-> logs[j].args[2] ]

IsPrefix(a, b) == Len(a) <= Len(b) /\ \A j \in DOMAIN a : a[j] = b[j]

\* C14: for each channel of an invocation the log notifications with that
\* channel's label are, at every moment, the first lines written to the
\* channel, in order and once each, and once the pipe is closed and the
\* relay has ended they are all of its lines: none is lost, a blank line is
\* forwarded and does not end the relay, and a last line without a newline
\* is forwarded before the relay ends
C14_RelayLogsEqualLines ==
    \A c \in ConnIds : \A i \in DOMAIN procs[c] : \A s \in Streams :
        LET p     == procs[c][i]
            lines == LinesOf(Scripts[p.script][s])
            texts == RelayTexts(c, p.req, s)
        IN  /\ IsPrefix(texts, lines)
            /\ (~p.wopen[s] /\ p.task[s] # "running") => texts = lines

(***************************************************************************)
(* C15.  Termination of an invocation.                                     *)
(***************************************************************************)

Exited(c, k) ==
    /\ k \in DOMAIN procs[c]
    /\ ~procs[c][k].alive
    /\ \A s \in Streams : ~procs[c][k].wopen[s] /\ procs[c][k].todo[s] = << >>

Completed(c, k) ==
    /\ k \in DOMAIN procs[c]
    /\ \A s \in Streams : procs[c][k].task[s] # "running"
    /\ DoneSent(c, procs[c][k].req)

\* C15: whatever a process writes to its two pipes, once it has exited and
\* both pipes are at end of stream both relay tasks terminate and the done of
\* the invocation is eventually sent
C15_ExitLeadsToDone ==
    \A c \in ConnIds : \A k \in 1..MaxFrames : Exited(c, k) ~> Completed(c, k)

(***************************************************************************)
(* C16.  Requests of unknown kind.                                         *)
(***************************************************************************)

\* how the error message writes the kind of message m: the string between
\* single quotes, None when the object has no type
KindShown(m) ==
    IF m.value.type.t = "str"
    THEN <<"'">> \o m.value.type.s \o <<"'">>
    ELSE <<"N","o","n","e">>

\* C16: a JSON object whose type is neither open nor ping, or that has no
\* type, is answered by exactly one notification, an error "Unknown type: "
\* followed by the kind received; no process is started for it, and the
\* session is in its read loop afterwards, the connection open.
C16_UnknownKindYieldsError ==
    \A c \in ConnIds : \A r \in DOMAIN hist[c] :
        (IsDict(hist[c][r]) /\ ~IsOpen(hist[c][r]) /\ ~IsPing(hist[c][r])) =>
            /\ Cardinality(NotesOf(c, r)) = 1
            /\ \A i \in NotesOf(c, r) :
                  /\ sent[c][i].type = "error"
                  /\ sent[c][i].fmt = "Unknown type: {}"
                  /\ sent[c][i].args = << KindShown(hist[c][r]) >>
            /\ NoStartFor(c, r)
            /\ IdleAfter(c, r)

\* an object without a type has been answered after an object of type noop,
\* and the session reads on
C16_Witness ==
    \E c \in ConnIds :
        /\ Len(hist[c]) = 2
        /\ hist[c][1] = Frames[4]
        /\ hist[c][2] = Frames[5]
        /\ Len(sent[c]) = 3
        /\ pc[c] = "recv"

(***************************************************************************)
(* C17.  Transport-level error frames.                                     *)
(***************************************************************************)

\* an ERROR frame has reached connection c, read by the loop or not yet
ErrorArrived(c) == \E i \in DOMAIN (hist[c] \o inbox[c]) : (hist[c] \o inbox[c])[i].type = "ERROR"

\* the loop of c has read an ERROR frame
ErrorRead(c) == \E r \in DOMAIN hist[c] : hist[c][r].type = "ERROR"

\* C17 as stated: once an error frame has reached the connection, in
\* whatever state the session then is, no further notification is sent on the
\* connection and no further message is dispatched (the loop reads nothing
\* but the error frame itself), and the session that has read it is closed.
C17_ErrorFrameEndsSession ==
    /\ [](\A c \in ConnIds : ErrorRead(c) => pc[c] = "closed")
    /\ [][\A c \in ConnIds : ErrorArrived(c) =>
              /\ sent'[c] = sent[c]
              /\ \A r \in DOMAIN hist'[c] \ DOMAIN hist[c] : hist'[c][r].type = "ERROR"]_vars

\* C17, amended: the loop reads an error frame only in its read loop (Idle);
\* when it has read one the session is closed, and from then on no
\* notification is sent on the connection and no message is dispatched.
C17_ErrorReadEndsSession ==
    /\ [](\A c \in ConnIds : ErrorRead(c) => pc[c] = "closed")
    /\ [][\A c \in ConnIds :
              /\ ErrorRead(c) => (sent'[c] = sent[c] /\ hist'[c] = hist[c] /\ pc'[c] = "closed")
              /\ (ErrorRead(c)' /\ ~ErrorRead(c)) => pc[c] = "recv"]_vars

\* an error frame that arrived during an invocation has been read after the
\* done of that invocation
C17_Witness ==
    \E c \in ConnIds :
        /\ Len(hist[c]) = 2
        /\ IsOpen(hist[c][1])
        /\ DoneSent(c, 1)
        /\ hist[c][2].type = "ERROR"
        /\ pc[c] = "closed"

(***************************************************************************)
(* C18.  The transport closes during an invocation.                        *)
(***************************************************************************)

\* the peer has closed connection c: its CLOSE has arrived, read or not
CloseArrived(c) == \E i \in DOMAIN (hist[c] \o inbox[c]) : (hist[c] \o inbox[c])[i].type = "CLOSE"

\* what belongs to the process: whether it runs, its status, what it has yet
\* to write and the write ends of its pipes
ProcSide(p) == << p.alive, p.returncode, p.todo, p.wopen >>

\* what belongs to the session
SessionSide(c) ==
    << pc[c], hist[c], sent[c], attempts[c], cur[c], rc[c], cmd[c],
       [ i \in DOMAIN procs[c] |-> procs[c][i].task ] >>

\* C18: once the peer has closed the connection, no step of the session (the
\* handler or a relay) changes the process of an invocation: it stays running
\* until it exits by itself; and a relay task ends only at the end of its
\* stream, the pipe closed and everything written to it read.
C18_CloseLeavesProcessAlone ==
    [][\A c \in ConnIds : CloseArrived(c) =>
          \A i \in DOMAIN procs[c] :
             /\ SessionSide(c)' # SessionSide(c) => ProcSide(procs[c][i])' = ProcSide(procs[c][i])
             /\ \A s \in Streams :
                   (procs[c][i].task[s] = "running" /\ procs[c][i].task[s]' # "running")
                       => (~procs[c][i].wopen[s] /\ procs[c][i].buf[s] = << >>)]_vars

(***************************************************************************)
(* C19.  The outbound stream of a connection.                              *)
(***************************************************************************)

\* the frames that have reached connection c, in the order of their arrival
Arrived(c) == hist[c] \o inbox[c]

IsGreeting(n) ==
    /\ n.type = "log"
    /\ n.fmt = "WebSocket connected. Please send a YouTube URL."
    /\ n.req = 0

\* C19: what a connection has sent is the greeting, once and first, and then
\* the notifications of the requests in the order of their arrival, those of
\* one request in one block: the request numbers along the stream never
\* decrease; the requests are dispatched in the order they arrived in; and
\* none is dropped: a handler that has stopped has left no request in its
\* queue.
C19_OutboundInArrivalOrder ==
    /\ [](\A c \in ConnIds :
            /\ pc[c] \notin { "absent", "new" } => (sent[c] # << >> /\ IsGreeting(sent[c][1]))
            /\ pc[c] \in { "absent", "new" } => (sent[c] = << >> /\ hist[c] = << >>)
            /\ \A i \in DOMAIN sent[c] : i > 1 => sent[c][i].req \in DOMAIN hist[c]
            /\ \A i, j \in DOMAIN sent[c] : i < j => sent[c][i].req <= sent[c][j].req
            /\ pc[c] \in { "closed", "crashed" } => inbox[c] = << >>)
    /\ [][\A c \in ConnIds : IsPrefix(Arrived(c), Arrived(c)') /\ IsPrefix(hist[c], hist[c]')]_vars
=============================================================================
